---- MODULE Spec2Model ----
(***************************************************************************)
(* Model of bases.py: conversion of digit strings between bases 2..36.     *)
(*                                                                         *)
(* A character is a one-character string, a digit string is a sequence of  *)
(* characters (most significant first).  A Python call either returns a    *)
(* value or raises: every function is an operator returning a record       *)
(* [err, val], err = "" meaning a normal return.  Assertions are enabled   *)
(* (the default interpreter mode).                                         *)
(***************************************************************************)
EXTENDS Integers, Sequences, FiniteSets

\* ------------------------------------------------------------------ bounds
\* longest digit string passed to decode / convert
MaxLen == 3
\* largest number passed to encode
MaxNumber == 1400

\* ------------------------------------------------------- program constants
MinBase == 2
MaxBase == 36

digits_chars == <<"0", "1", "2", "3", "4", "5", "6", "7", "8", "9">>
ascii_lowercase ==
  <<"a", "b", "c", "d", "e", "f", "g", "h", "i", "j", "k", "l", "m",
    "n", "o", "p", "q", "r", "s", "t", "u", "v", "w", "x", "y", "z">>
ascii_uppercase ==
  <<"A", "B", "C", "D", "E", "F", "G", "H", "I", "J", "K", "L", "M",
    "N", "O", "P", "Q", "R", "S", "T", "U", "V", "W", "X", "Y", "Z">>

BASE_36_CHARS == digits_chars \o ascii_lowercase

BASE_36_CHAR_MAP ==
  [char \in {BASE_36_CHARS[i] : i \in 1..Len(BASE_36_CHARS)} |->
     (CHOOSE i \in 1..Len(BASE_36_CHARS) : BASE_36_CHARS[i] = char) - 1]

UPPERCASE_CHARS == {ascii_uppercase[i] : i \in 1..Len(ascii_uppercase)}

\* str.lower() on one character
lower(char) ==
  IF char \in UPPERCASE_CHARS
    THEN ascii_lowercase[CHOOSE i \in 1..Len(ascii_uppercase) : ascii_uppercase[i] = char]
    ELSE char

\* ------------------------------------------------------- results of a call
NoError == ""
AssertionError == "AssertionError"
UnknownDigit == "AssertionError: unknown digit value"
DigitRange == "AssertionError: digit value out of range (0-35)"
BaseRange == "AssertionError: base is out of range"
Base1Range == "AssertionError: base1 is out of range"
Base2Range == "AssertionError: base2 is out of range"
NegativeNumber == "AssertionError: number is negative"
ValueError == "ValueError: invalid literal for int()"

Return(v) == [err |-> NoError, val |-> v]
Raise(e) == [err |-> e, val |-> 0]
RaiseStr(e) == [err |-> e, val |-> <<>>]

\* ------------------------------------------------------- digit/value codec
\* an index one too far into the alphabet
char_for_value_off_by_one(value) ==
  IF 0 <= value /\ value < 36
    THEN IF value + 2 <= Len(BASE_36_CHARS)
           THEN [err |-> NoError, val |-> BASE_36_CHARS[value + 2]]
           ELSE [err |-> "IndexError", val |-> <<>>]
    ELSE [err |-> "AssertionError: digit value out of range (0-35)", val |-> <<>>]

char_for_value(value) ==
  IF 0 <= value /\ value < 36
    THEN Return(BASE_36_CHARS[value + 1])
    ELSE RaiseStr(DigitRange)

\* the lookup without the lowercasing of [A-Z]
value_of_char_no_fold(digit) ==
  IF digit \in DOMAIN BASE_36_CHAR_MAP
    THEN Return(BASE_36_CHAR_MAP[digit])
    ELSE Raise(UnknownDigit)

value_of_char(digit) ==
  LET d == IF digit \in UPPERCASE_CHARS THEN lower(digit) ELSE digit
  IN  IF d \in DOMAIN BASE_36_CHAR_MAP
        THEN Return(BASE_36_CHAR_MAP[d])
        ELSE Raise(UnknownDigit)

\* ----------------------------------------------------------------- decode
\* loop of decode_solution_1: exponent counts the digits done from the right
RECURSIVE decode_solution_1_loop(_, _, _, _)
decode_solution_1_loop(digits, base, exponent, number) ==
  IF exponent >= Len(digits) THEN Return(number)
  ELSE LET digit == digits[Len(digits) - exponent]
           dv == value_of_char(digit)
       IN  IF dv.err # NoError THEN dv
           ELSE IF ~(0 <= dv.val /\ dv.val < base) THEN Raise(AssertionError)
           ELSE decode_solution_1_loop(digits, base, exponent + 1,
                                       number + dv.val * (base ^ exponent))

decode_solution_1(digits, base) == decode_solution_1_loop(digits, base, 0, 0)

\* the generator of decode_solution_1b: no range check on the digit value
RECURSIVE decode_solution_1b_sum(_, _, _, _)
decode_solution_1b_sum(digits, base, e, total) ==
  IF e >= Len(digits) THEN Return(total)
  ELSE LET dv == value_of_char(digits[Len(digits) - e])
       IN  IF dv.err # NoError THEN dv
           ELSE decode_solution_1b_sum(digits, base, e + 1, total + dv.val * (base ^ e))

decode_solution_1b(digits, base) == decode_solution_1b_sum(digits, base, 0, 0)

RECURSIVE decode_solution_2_loop(_, _, _, _)
decode_solution_2_loop(digits, base, iteration, number) ==
  IF iteration >= Len(digits) THEN Return(number)
  ELSE LET max_exponent == Len(digits) - 1
           dv == value_of_char(digits[iteration + 1])
           exponent == max_exponent - iteration
       IN  IF dv.err # NoError THEN dv
           ELSE IF ~(0 <= dv.val /\ dv.val < base) THEN Raise(AssertionError)
           ELSE decode_solution_2_loop(digits, base, iteration + 1,
                                       number + dv.val * (base ^ exponent))

decode_solution_2(digits, base) == decode_solution_2_loop(digits, base, 0, 0)

\* the power of the base stepped by addition instead of multiplication
RECURSIVE decode_solution_3_power_add(_, _, _, _, _)
decode_solution_3_power_add(digits, base, done, number, power) ==
  IF done >= Len(digits) THEN Return(number)
  ELSE LET dv == value_of_char(digits[Len(digits) - done])
       IN  IF dv.err # NoError THEN dv
           ELSE IF ~(0 <= dv.val /\ dv.val < base) THEN Raise(AssertionError)
           ELSE decode_solution_3_power_add(digits, base, done + 1,
                                            number + dv.val * power, power + base)

\* done counts the digits consumed from the right; power = base ** done
RECURSIVE decode_solution_3_loop(_, _, _, _, _)
decode_solution_3_loop(digits, base, done, number, power) ==
  IF done >= Len(digits) THEN Return(number)
  ELSE LET dv == value_of_char(digits[Len(digits) - done])
       IN  IF dv.err # NoError THEN dv
           ELSE IF ~(0 <= dv.val /\ dv.val < base) THEN Raise(AssertionError)
           ELSE decode_solution_3_loop(digits, base, done + 1,
                                       number + dv.val * power, power * base)

decode_solution_3(digits, base) == decode_solution_3_loop(digits, base, 0, 0, 1)

\* a slip in the shift-and-add step: the digit is added before the shift
RECURSIVE decode_solution_4_add_first(_, _, _, _)
decode_solution_4_add_first(digits, base, i, number) ==
  IF i > Len(digits) THEN Return(number)
  ELSE LET dv == value_of_char(digits[i])
       IN  IF dv.err # NoError THEN dv
           ELSE IF ~(0 <= dv.val /\ dv.val < base) THEN Raise(AssertionError)
           ELSE decode_solution_4_add_first(digits, base, i + 1, (number + dv.val) * base)

RECURSIVE decode_solution_4_loop(_, _, _, _)
decode_solution_4_loop(digits, base, i, number) ==
  IF i > Len(digits) THEN Return(number)
  ELSE LET dv == value_of_char(digits[i])
       IN  IF dv.err # NoError THEN dv
           ELSE IF ~(0 <= dv.val /\ dv.val < base) THEN Raise(AssertionError)
           ELSE decode_solution_4_loop(digits, base, i + 1, number * base + dv.val)

decode_solution_4(digits, base) == decode_solution_4_loop(digits, base, 1, 0)

RECURSIVE decode_recursive(_, _)
decode_recursive(digits, base) ==
  IF Len(digits) < 1 THEN Return(0)
  ELSE LET dv == value_of_char(digits[Len(digits)])
       IN  IF dv.err # NoError THEN dv
           ELSE IF ~(0 <= dv.val /\ dv.val < base) THEN Raise(AssertionError)
           ELSE IF Len(digits) = 1 THEN dv
           ELSE LET rest == decode_recursive(SubSeq(digits, 1, Len(digits) - 1), base)
                IN  IF rest.err # NoError THEN rest
                    ELSE Return(rest.val * base + dv.val)

\* the built-in int(str, base) called by decode_cheating, for 2 <= base <= 36:
\* an optional sign, an optional 0b / 0o / 0x prefix matching the base, then
\* digits below the base with single underscores between them.
int_digit_value(char) ==
  LET c == lower(char)
  IN  IF \E i \in 1..Len(BASE_36_CHARS) : BASE_36_CHARS[i] = c
        THEN (CHOOSE i \in 1..Len(BASE_36_CHARS) : BASE_36_CHARS[i] = c) - 1
        ELSE 37

RECURSIVE int_magnitude(_, _, _, _)
int_magnitude(body, base, i, number) ==
  IF i > Len(body) THEN number
  ELSE IF body[i] = "_" THEN int_magnitude(body, base, i + 1, number)
  ELSE int_magnitude(body, base, i + 1, number * base + int_digit_value(body[i]))

int(digits, base) ==
  LET signed == Len(digits) > 0 /\ digits[1] \in {"+", "-"}
      unsigned == IF signed THEN Tail(digits) ELSE digits
      letter == IF base = 16 THEN "x" ELSE IF base = 8 THEN "o"
                ELSE IF base = 2 THEN "b" ELSE ""
      prefixed == /\ Len(unsigned) >= 2
                  /\ unsigned[1] = "0"
                  /\ lower(unsigned[2]) = letter
      after == IF prefixed THEN SubSeq(unsigned, 3, Len(unsigned)) ELSE unsigned
      body == IF prefixed /\ Len(after) > 0 /\ after[1] = "_" THEN Tail(after) ELSE after
      wellformed ==
        /\ Len(body) > 0
        /\ body[1] # "_"
        /\ body[Len(body)] # "_"
        /\ \A i \in 1..Len(body) :
             \/ body[i] = "_" /\ i > 1 /\ body[i - 1] # "_"
             \/ body[i] # "_" /\ int_digit_value(body[i]) < base
      magnitude == int_magnitude(body, base, 1, 0)
  IN  IF ~wellformed THEN Raise(ValueError)
      ELSE IF signed /\ digits[1] = "-" THEN Return(0 - magnitude)
      ELSE Return(magnitude)

decode_cheating(digits, base) == int(digits, base)

\* decode reduced to the built-in conversion, without the checked solutions
decode_cheating_only(digits, base) ==
  IF ~(2 <= base /\ base <= 36) THEN Raise(BaseRange)
  ELSE decode_cheating(digits, base)

decode(digits, base) ==
  IF ~(2 <= base /\ base <= 36) THEN Raise(BaseRange)
  ELSE
    LET number_1 == decode_solution_1(digits, base)
        number_1b == decode_solution_1b(digits, base)
        number_2 == decode_solution_2(digits, base)
        number_3 == decode_solution_3(digits, base)
        number_4 == decode_solution_4(digits, base)
        number_5 == decode_recursive(digits, base)
        number_6 == decode_cheating(digits, base)
    IN  IF number_1.err # NoError THEN number_1
        ELSE IF number_1b.err # NoError THEN number_1b
        ELSE IF number_2.err # NoError THEN number_2
        ELSE IF number_3.err # NoError THEN number_3
        ELSE IF number_4.err # NoError THEN number_4
        ELSE IF number_5.err # NoError THEN number_5
        ELSE IF number_6.err # NoError THEN number_6
        ELSE IF number_1.val # number_1b.val THEN Raise(AssertionError)
        ELSE IF number_1.val # number_2.val THEN Raise(AssertionError)
        ELSE IF number_2.val # number_3.val THEN Raise(AssertionError)
        ELSE IF number_3.val # number_4.val THEN Raise(AssertionError)
        ELSE IF number_4.val # number_5.val THEN Raise(AssertionError)
        ELSE IF number_5.val # number_6.val THEN Raise(AssertionError)
        ELSE number_4

\* ----------------------------------------------------------------- encode
\* the while loop of encode_solution_1: first exponent with base ** e > number
RECURSIVE encode_solution_1_search(_, _, _)
encode_solution_1_search(number, base, max_exponent) ==
  IF base ^ max_exponent <= number
    THEN encode_solution_1_search(number, base, max_exponent + 1)
    ELSE max_exponent

\* the for loop of encode_solution_1, exponent from max_exponent down to 0
RECURSIVE encode_solution_1_loop(_, _, _, _)
encode_solution_1_loop(base, exponent, remainder, digits1) ==
  IF exponent < 0 THEN Return(digits1)
  ELSE LET power == base ^ exponent
           digit_value == remainder \div power
           character == char_for_value(digit_value)
       IN  IF ~(0 <= digit_value /\ digit_value < base) THEN RaiseStr(AssertionError)
           ELSE IF character.err # NoError THEN character
           ELSE encode_solution_1_loop(base, exponent - 1,
                                       remainder - digit_value * power,
                                       Append(digits1, character.val))

\* the exponent search left one too far: the step back down is missing
encode_solution_1_no_step_back(number, base) ==
  encode_solution_1_loop(base, encode_solution_1_search(number, base, 0), number, <<>>)

encode_solution_1(number, base) ==
  LET max_exponent == encode_solution_1_search(number, base, 0) - 1
  IN  encode_solution_1_loop(base, max_exponent, number, <<>>)

RECURSIVE encode_solution_2_loop(_, _, _)
encode_solution_2_loop(base, quotient, digits2) ==
  IF ~(quotient > 0) THEN Return(digits2)
  ELSE LET digit_value == quotient % base
           character == char_for_value(digit_value)
       IN  IF ~(0 <= digit_value /\ digit_value < base) THEN RaiseStr(AssertionError)
           ELSE IF character.err # NoError THEN character
           ELSE encode_solution_2_loop(base, quotient \div base,
                                       <<character.val>> \o digits2)

encode_solution_2(number, base) == encode_solution_2_loop(base, number, <<>>)

RECURSIVE encode_recursive(_, _)
encode_recursive(number, base) ==
  LET digit_value == number % base
      character == char_for_value(digit_value)
      quotient == number \div base
  IN  IF ~(0 <= digit_value /\ digit_value < base) THEN RaiseStr(AssertionError)
      ELSE IF character.err # NoError THEN character
      ELSE IF quotient > 0
        THEN LET rest == encode_recursive(quotient, base)
             IN  IF rest.err # NoError THEN rest
                 ELSE Return(Append(rest.val, character.val))
        ELSE Return(<<character.val>>)

\* the built-in format(number, 'b' | 'o' | 'd' | 'x') of a number >= 0
format_digits == <<"0", "1", "2", "3", "4", "5", "6", "7", "8", "9",
                   "a", "b", "c", "d", "e", "f">>

RECURSIVE format_unsigned(_, _)
format_unsigned(number, radix) ==
  IF number < radix THEN <<format_digits[number + 1]>>
  ELSE Append(format_unsigned(number \div radix, radix), format_digits[(number % radix) + 1])

format(number, format_spec) ==
  LET radix == IF format_spec = "b" THEN 2 ELSE IF format_spec = "o" THEN 8
               ELSE IF format_spec = "d" THEN 10 ELSE 16
  IN  format_unsigned(number, radix)

base_format == [b \in {2, 8, 10, 16} |->
                  IF b = 2 THEN "b" ELSE IF b = 8 THEN "o" ELSE IF b = 10 THEN "d" ELSE "x"]

\* none = TRUE stands for Python's None (the function falls off its end)
encode_cheating(number, base) ==
  IF base \in DOMAIN base_format
    THEN [none |-> FALSE, val |-> format(number, base_format[base])]
    ELSE [none |-> TRUE, val |-> <<>>]

\* encode without the special case for zero
encode_no_zero_case(number, base) ==
  IF ~(2 <= base /\ base <= 36) THEN RaiseStr(BaseRange)
  ELSE IF ~(number >= 0) THEN RaiseStr(NegativeNumber)
  ELSE
    LET digits_1 == encode_solution_1(number, base)
        digits_2 == encode_solution_2(number, base)
        digits_3 == encode_recursive(number, base)
        digits_4 == encode_cheating(number, base)
    IN  IF digits_1.err # NoError THEN digits_1
        ELSE IF digits_2.err # NoError THEN digits_2
        ELSE IF digits_3.err # NoError THEN digits_3
        ELSE IF digits_1.val # digits_2.val THEN RaiseStr(AssertionError)
        ELSE IF digits_2.val # digits_3.val THEN RaiseStr(AssertionError)
        ELSE IF (~digits_4.none /\ digits_4.val # <<>>) /\ digits_2.val # digits_4.val
          THEN RaiseStr(AssertionError)
        ELSE digits_2

encode(number, base) ==
  IF ~(2 <= base /\ base <= 36) THEN RaiseStr(BaseRange)
  ELSE IF ~(number >= 0) THEN RaiseStr(NegativeNumber)
  ELSE IF number = 0 THEN Return(<<"0">>)
  ELSE
    LET digits_1 == encode_solution_1(number, base)
        digits_2 == encode_solution_2(number, base)
        digits_3 == encode_recursive(number, base)
        digits_4 == encode_cheating(number, base)
    IN  IF digits_1.err # NoError THEN digits_1
        ELSE IF digits_2.err # NoError THEN digits_2
        ELSE IF digits_3.err # NoError THEN digits_3
        ELSE IF digits_1.val # digits_2.val THEN RaiseStr(AssertionError)
        ELSE IF digits_2.val # digits_3.val THEN RaiseStr(AssertionError)
        ELSE IF (~digits_4.none /\ digits_4.val # <<>>) /\ digits_2.val # digits_4.val
          THEN RaiseStr(AssertionError)
        ELSE digits_2

\* ---------------------------------------------------------------- convert
\* stages lists the calls convert has entered, in order
\* convert that leaves the check of base2 to encode
convert_base2_late(digits, base1, base2) ==
  IF ~(2 <= base1 /\ base1 <= 36)
    THEN [err |-> Base1Range, val |-> <<>>, stages |-> <<>>]
  ELSE
    LET number == decode(digits, base1)
    IN  IF number.err # NoError
          THEN [err |-> number.err, val |-> <<>>, stages |-> <<"decode">>]
        ELSE LET digits2 == encode(number.val, base2)
             IN  [err |-> IF digits2.err = BaseRange THEN Base2Range ELSE digits2.err,
                  val |-> digits2.val, stages |-> <<"decode", "encode">>]

\* convert that returns the input unchanged when the two bases are equal
convert_same_base_shortcut(digits, base1, base2) ==
  IF ~(2 <= base1 /\ base1 <= 36)
    THEN [err |-> Base1Range, val |-> <<>>, stages |-> <<>>]
  ELSE IF ~(2 <= base2 /\ base2 <= 36)
    THEN [err |-> Base2Range, val |-> <<>>, stages |-> <<>>]
  ELSE
    LET number == decode(digits, base1)
    IN  IF number.err # NoError
          THEN [err |-> number.err, val |-> <<>>, stages |-> <<"decode">>]
        ELSE IF base1 = base2
          THEN [err |-> NoError, val |-> digits, stages |-> <<"decode">>]
        ELSE LET digits2 == encode(number.val, base2)
             IN  [err |-> digits2.err, val |-> digits2.val,
                  stages |-> <<"decode", "encode">>]

convert(digits, base1, base2) ==
  IF ~(2 <= base1 /\ base1 <= 36)
    THEN [err |-> Base1Range, val |-> <<>>, stages |-> <<>>]
  ELSE IF ~(2 <= base2 /\ base2 <= 36)
    THEN [err |-> Base2Range, val |-> <<>>, stages |-> <<>>]
  ELSE
    LET number == decode(digits, base1)
    IN  IF number.err # NoError
          THEN [err |-> number.err, val |-> <<>>, stages |-> <<"decode">>]
        ELSE LET digits2 == encode(number.val, base2)
             IN  [err |-> digits2.err, val |-> digits2.val,
                  stages |-> <<"decode", "encode">>]

\* ------------------------------------------------------------ the calls
\* One call of the module's interface: the arguments are fixed at the start,
\* pc goes from "call" to "return" when the function has returned or raised.
VARIABLES op, digits, number, base1, base2, pc, ret_number, ret_digits, error, stages

vars == <<op, digits, number, base1, base2, pc, ret_number, ret_digits, error, stages>>

\* characters the digit strings are drawn from: digits, letters of both
\* cases, and two characters outside the alphabet
CHARS == {"0", "1", "9", "b", "B", "g", "z", "-", "_"}

DigitStrings == UNION {[1..n -> CHARS] : n \in 0..MaxLen}

\* every base of the range and one on either side
Bases == (MinBase - 1)..(MaxBase + 1)

\* the pairs of bases convert is called with: every equal pair, and all
\* pairs over a sample of bases
SampleBases == {MinBase - 1, MinBase, 10, 16, MaxBase, MaxBase + 1}
BasePairs == {<<b, b>> : b \in Bases} \cup (SampleBases \X SampleBases)

Init ==
  /\ pc = "call"
  /\ ret_number = 0
  /\ ret_digits = <<>>
  /\ error = NoError
  /\ stages = <<>>
  /\ \/ /\ op = "decode"
        /\ digits \in DigitStrings
        /\ base1 \in Bases
        /\ base2 = 0
        /\ number = 0
     \/ /\ op = "encode"
        /\ number \in (0 - 1)..MaxNumber
        /\ base2 \in Bases
        /\ base1 = 0
        /\ digits = <<>>
     \/ /\ op = "convert"
        /\ digits \in DigitStrings
        /\ \E pair \in BasePairs : base1 = pair[1] /\ base2 = pair[2]
        /\ number = 0

CallDecode ==
  /\ pc = "call"
  /\ op = "decode"
  /\ LET r == decode(digits, base1)
     IN  /\ error' = r.err
         /\ ret_number' = r.val
  /\ pc' = "return"
  /\ UNCHANGED <<op, digits, number, base1, base2, ret_digits, stages>>

CallEncode ==
  /\ pc = "call"
  /\ op = "encode"
  /\ LET r == encode(number, base2)
     IN  /\ error' = r.err
         /\ ret_digits' = r.val
  /\ pc' = "return"
  /\ UNCHANGED <<op, digits, number, base1, base2, ret_number, stages>>

CallConvert ==
  /\ pc = "call"
  /\ op = "convert"
  /\ LET r == convert(digits, base1, base2)
     IN  /\ error' = r.err
         /\ ret_digits' = r.val
         /\ stages' = r.stages
  /\ pc' = "return"
  /\ UNCHANGED <<op, digits, number, base1, base2, ret_number>>

Next == CallDecode \/ CallEncode \/ CallConvert

Spec == Init /\ [][Next]_vars

\* ------------------------------------------------- vocabulary of the claims
InRange(b) == MinBase <= b /\ b <= MaxBase

\* value of a symbol of the 36-symbol alphabet, case folded; 36 for any other
SymbolValue(c) ==
  IF \E v \in 0..35 : BASE_36_CHARS[v + 1] = lower(c)
    THEN CHOOSE v \in 0..35 : BASE_36_CHARS[v + 1] = lower(c)
    ELSE 36

ValidDigits(d, b) == Len(d) > 0 /\ \A i \in 1..Len(d) : SymbolValue(d[i]) < b

\* sum over positions i from the right of value(d[i]) * b^i
RECURSIVE PositionalValue(_, _, _)
PositionalValue(d, b, i) ==
  IF i >= Len(d) THEN 0
  ELSE SymbolValue(d[Len(d) - i]) * (b ^ i) + PositionalValue(d, b, i + 1)

\* magnitude = magnitude * b + digit_value, left to right from 0
RECURSIVE ShiftAndAdd(_, _)
ShiftAndAdd(d, b) ==
  IF Len(d) = 0 THEN 0
  ELSE ShiftAndAdd(SubSeq(d, 1, Len(d) - 1), b) * b + SymbolValue(d[Len(d)])

ToLower(d) == [i \in 1..Len(d) |-> lower(d[i])]

upper(c) ==
  IF \E i \in 1..Len(ascii_lowercase) : ascii_lowercase[i] = c
    THEN ascii_uppercase[CHOOSE i \in 1..Len(ascii_lowercase) : ascii_lowercase[i] = c]
    ELSE c

\* the strings that differ from d only in the case of letters
CaseVariants(d) ==
  {e \in [1..Len(d) -> UNION {{lower(d[i]), upper(d[i])} : i \in 1..Len(d)}] :
     \A i \in 1..Len(d) : e[i] \in {lower(d[i]), upper(d[i])}}

\* d without its leading zeros; an all-zero string keeps one zero
RECURSIVE StripLeadingZeros(_)
StripLeadingZeros(d) ==
  IF Len(d) > 1 /\ d[1] = "0" THEN StripLeadingZeros(Tail(d)) ELSE d

AllZero(d) == Len(d) > 0 /\ \A i \in 1..Len(d) : d[i] = "0"

DecodeReturned == pc = "return" /\ op = "decode"
EncodeReturned == pc = "return" /\ op = "encode"
ConvertReturned == pc = "return" /\ op = "convert"

\* ------------------------------------------------------------------ claims

\* C1: for a base in [2,36] and a non-empty digit string whose characters all
\* have a value below the base, decode returns the positional value of the
\* string, which is also the result of the left-to-right shift-and-add.
C1_DecodePositional ==
  (DecodeReturned /\ InRange(base1) /\ ValidDigits(digits, base1)) =>
    /\ error = NoError
    /\ ret_number = PositionalValue(digits, base1, 0)
    /\ ret_number = ShiftAndAdd(digits, base1)

C1_Witness ==
  /\ DecodeReturned
  /\ digits = <<"1", "0", "b">>
  /\ base1 = 16
  /\ error = NoError
  /\ ret_number = 267

\* C2: round trip. For valid digits d in base b1, the canonical form
\* c = encode(decode(d, b1), b1) converted from b1 to b2 decodes in b2 to the
\* magnitude of d; and decode(encode(n, b), b) = n for every n >= 0.
C2_RoundTrip ==
  /\ (ConvertReturned /\ InRange(base1) /\ InRange(base2)
        /\ ValidDigits(digits, base1)) =>
       LET n == decode(digits, base1)
           c == encode(n.val, base1)
           t == convert(c.val, base1, base2)
           back == decode(t.val, base2)
       IN  /\ n.err = NoError /\ c.err = NoError
           /\ t.err = NoError /\ back.err = NoError
           /\ back.val = n.val
           /\ (c.val = digits => (error = NoError /\ ret_digits = t.val))
  /\ (EncodeReturned /\ InRange(base2) /\ number >= 0) =>
       /\ error = NoError
       /\ decode(ret_digits, base2) = Return(number)

C2_Witness ==
  /\ ConvertReturned
  /\ digits = <<"1", "z", "z">>
  /\ base1 = 36
  /\ base2 = 2
  /\ error = NoError
  /\ Len(ret_digits) = 12
  /\ decode(ret_digits, 2).val = 2591

\* C3 as stated: convert(d, b, b) equals d after leading-zero stripping, for
\* every digit string d valid under b.
C3_SameBaseIsStrippedInput ==
  (ConvertReturned /\ base1 = base2 /\ InRange(base1)
     /\ ValidDigits(digits, base1)) =>
    /\ error = NoError
    /\ ret_digits = StripLeadingZeros(digits)

\* C3 amended: convert(d, b, b) equals the lowercase form of d after
\* leading-zero stripping (an all-zero d gives "0").
C3_SameBaseIsStrippedLowercase ==
  (ConvertReturned /\ base1 = base2 /\ InRange(base1)
     /\ ValidDigits(digits, base1)) =>
    /\ error = NoError
    /\ ret_digits = StripLeadingZeros(ToLower(digits))

C3_Witness ==
  /\ ConvertReturned
  /\ base1 = 16
  /\ base2 = 16
  /\ digits = <<"0", "B", "9">>
  /\ error = NoError
  /\ ret_digits = <<"b", "9">>

\* C4: for every base in [2,36], decode of the empty digit string returns
\* magnitude 0 and raises no error.
C4_EmptyDecodesToZero ==
  (DecodeReturned /\ InRange(base1) /\ digits = <<>>) =>
    /\ error = NoError
    /\ ret_number = 0

\* C5: for a base in [2,36], decode of a digit string holding at least one
\* character whose value is not below the base, or that is outside the
\* alphabet, raises an error, whatever the other characters are.
C5_InvalidDigitFails ==
  (DecodeReturned /\ InRange(base1)
     /\ \E i \in 1..Len(digits) : SymbolValue(digits[i]) >= base1) =>
    error # NoError

C5_Witness ==
  /\ DecodeReturned
  /\ digits = <<"-", "1">>
  /\ base1 = 10
  /\ error = UnknownDigit

\* C6: case insensitivity. For digits valid under a base in [2,36], every
\* string that differs only in the case of its letters decodes to the same
\* number.
C6_CaseInsensitive ==
  (DecodeReturned /\ InRange(base1) /\ ValidDigits(digits, base1)) =>
    /\ error = NoError
    /\ \A e \in CaseVariants(digits) : decode(e, base1) = Return(ret_number)

C6_Witness ==
  /\ DecodeReturned
  /\ digits = <<"B", "b">>
  /\ base1 = 16
  /\ error = NoError
  /\ ret_number = 187
  /\ decode(<<"b", "B">>, 16) = Return(187)

\* C7: encode(0, b) is exactly "0" for every base in [2,36], and convert of
\* a (non-empty) all-zero digit string is "0".
C7_ZeroCanonical ==
  /\ (EncodeReturned /\ InRange(base2) /\ number = 0) =>
       (error = NoError /\ ret_digits = <<"0">>)
  /\ (ConvertReturned /\ InRange(base1) /\ InRange(base2) /\ AllZero(digits)) =>
       (error = NoError /\ ret_digits = <<"0">>)

C7_Witness ==
  /\ EncodeReturned
  /\ number = 0
  /\ base2 = 36
  /\ error = NoError
  /\ ret_digits = <<"0">>

\* C8: for every number n > 0 and base in [2,36], encode(n, b) is a non-empty
\* string whose first character is not '0'.
C8_NoLeadingZero ==
  (EncodeReturned /\ InRange(base2) /\ number > 0) =>
    /\ error = NoError
    /\ Len(ret_digits) > 0
    /\ ret_digits[1] # "0"

C8_Witness ==
  /\ EncodeReturned
  /\ number = 1296
  /\ base2 = 36
  /\ error = NoError
  /\ ret_digits = <<"1", "0", "0">>

\* C9: when base1 or base2 is outside [2,36], convert raises the invalid-base
\* error of its own checks, whatever the digits are, and neither decode nor
\* encode has been entered (no digit has been examined).
C9_BasesCheckedFirst ==
  (ConvertReturned /\ (~InRange(base1) \/ ~InRange(base2))) =>
    /\ error \in {Base1Range, Base2Range}
    /\ stages = <<>>
    /\ (~InRange(base1) => error = Base1Range)

C9_Witness ==
  /\ ConvertReturned
  /\ base1 = 10
  /\ base2 = 37
  /\ digits = <<"-", "g">>
  /\ error = Base2Range
  /\ stages = <<>>

\* C10: on valid input the redundant solutions agree and no cross-check
\* fails: the six decode solutions and int(d, b) return the same number; for
\* n > 0 the three encode solutions return the same string, which for a base
\* in {2, 8, 10, 16} is also the built-in formatting of n.
C10_SolutionsAgree ==
  /\ (DecodeReturned /\ InRange(base1) /\ ValidDigits(digits, base1)) =>
       /\ error = NoError
       /\ decode_solution_1(digits, base1) = Return(ret_number)
       /\ decode_solution_1b(digits, base1) = Return(ret_number)
       /\ decode_solution_2(digits, base1) = Return(ret_number)
       /\ decode_solution_3(digits, base1) = Return(ret_number)
       /\ decode_solution_4(digits, base1) = Return(ret_number)
       /\ decode_recursive(digits, base1) = Return(ret_number)
       /\ int(digits, base1) = Return(ret_number)
  /\ (EncodeReturned /\ InRange(base2) /\ number > 0) =>
       /\ error = NoError
       /\ encode_solution_1(number, base2) = Return(ret_digits)
       /\ encode_solution_2(number, base2) = Return(ret_digits)
       /\ encode_recursive(number, base2) = Return(ret_digits)
       /\ (base2 \in {2, 8, 10, 16} =>
             encode_cheating(number, base2) = [none |-> FALSE, val |-> ret_digits])

C10_Witness ==
  /\ EncodeReturned
  /\ number = 255
  /\ base2 = 16
  /\ error = NoError
  /\ ret_digits = <<"f", "f">>
  /\ encode_solution_1(255, 16).val = <<"f", "f">>
  /\ encode_cheating(255, 16).val = <<"f", "f">>

====
